---- MODULE Spec2Model ----
(***************************************************************************)
(* A model of the durable provisioning workflow of frameception:           *)
(*   - SetupContext / SetupState / ProjectSetupService                     *)
(*       (src/backend/services/project_setup_service.py)                   *)
(*   - CodeService, the code-generation and build-validation loop          *)
(*       (src/backend/services/code_service.py)                            *)
(* Python's exception semantics are modelled by threading a machine record *)
(* m through the statements of a method: once m.exc is set every later     *)
(* statement is skipped until a handler clears it.                         *)
(***************************************************************************)
EXTENDS Integers, Sequences, FiniteSets, TLC

\* ------------------------------------------------------------------ bounds
\* The number of advance() calls a driver makes on one workflow.
MaxCalls == 10
\* How many Checkpoint Store calls may fail during one advance() call.
MaxDbFailures == 2
\* The number of to_dict/from_dict round trips made on one context.
MaxRoundTrips == 2

\* ------------------------------------------------------- Python values
\* Optional[T]: None is the empty sequence, a value v is <<v>>.
None == <<>>
Some(v) == <<v>>
\* The empty dict {}.
EmptyDict == [k \in {} |-> 0]
\* dict.get(key, default)
Get(d, key, default) == IF key \in DOMAIN d THEN d[key] ELSE default

\* Exceptions: str(e) is e.msg.
NoExc == [kind |-> "none", msg |-> ""]
Exc(kind, msg) == [kind |-> kind, msg |-> msg]
\* The messages str(e) of the exceptions external collaborators raise.
Msgs == {"boom", "timeout"}

\* ------------------------------------------------------------ SetupState
INIT == "init"
VALIDATING == "validating"
GITHUB_SETUP == "github_setup"
VERCEL_SETUP == "vercel_setup"
CODE_UPDATE == "code_update"
METADATA_UPDATE == "metadata_update"
DOMAIN_SETUP == "domain_setup"
NOTIFICATION == "notification"
COMPLETE == "complete"
FAILED == "failed"

SetupState ==
    {INIT, VALIDATING, GITHUB_SETUP, VERCEL_SETUP, CODE_UPDATE,
     METADATA_UPDATE, DOMAIN_SETUP, NOTIFICATION, COMPLETE, FAILED}

\* ---------------------------------------------------------- SetupContext
\* The request payloads a workflow is constructed with.
FullData == [prompt |-> "p", description |-> "d", userContext |-> [fid |-> 7]]
DataSet ==
    { FullData,
      [prompt |-> "p", description |-> "d", userContext |-> [fid |-> 0]],
      [prompt |-> "p", description |-> "d", userContext |-> EmptyDict],
      [prompt |-> "p", description |-> "d"],
      [description |-> "d", userContext |-> [fid |-> 7]],
      EmptyDict }

\* SetupContext.__init__
NewContext(data, project_id, job_id) ==
    [ data            |-> data,
      project_id      |-> project_id,
      job_id          |-> job_id,
      user_context    |-> Get(data, "userContext", EmptyDict),
      project_name    |-> None,
      repo            |-> None,
      vercel_info     |-> None,
      frontend_url    |-> None,
      error           |-> None,
      completed_steps |-> {} ]

\* A repository handle (org.create_repo, org.get_repo); full_name is
\* "org/name", kept as its "/"-separated parts.
RepoHandle(org_name, repo_name) == [full_name |-> <<org_name, repo_name>>]
ORG_NAME == "frameception-v2"

\* list(a_set): the elements in some order
RECURSIVE SetToList(_)
SetToList(S) ==
    IF S = {} THEN <<>>
    ELSE LET x == CHOOSE y \in S : TRUE IN <<x>> \o SetToList(S \ {x})
\* set(a_list)
ListToSet(l) == {l[i] : i \in DOMAIN l}

\* to_dict leaving completed_steps out.
to_dict_without_steps(c) ==
    [ data            |-> c.data,
      project_id      |-> c.project_id,
      job_id          |-> c.job_id,
      user_context    |-> c.user_context,
      project_name    |-> c.project_name,
      repo_full_name  |-> IF c.repo # None THEN Some(c.repo[1].full_name) ELSE None,
      vercel_info     |-> c.vercel_info,
      frontend_url    |-> c.frontend_url,
      error           |-> c.error ]

\* SetupContext.to_dict
to_dict(c) ==
    [ data            |-> c.data,
      project_id      |-> c.project_id,
      job_id          |-> c.job_id,
      user_context    |-> c.user_context,
      project_name    |-> c.project_name,
      repo_full_name  |-> IF c.repo # None THEN Some(c.repo[1].full_name) ELSE None,
      vercel_info     |-> c.vercel_info,
      frontend_url    |-> c.frontend_url,
      error           |-> c.error,
      completed_steps |-> SetToList(c.completed_steps) ]

\* SetupContext.from_dict; reconnect tells whether GitHub answers the lookup
\* of the organization and the repository. GITHUB_TOKEN is set in the
\* environment, as it was for the _setup_github that created the repository.
from_dict(d, project_id, job_id, reconnect) ==
    LET c0 == NewContext(Get(d, "data", EmptyDict), project_id, job_id)
        c1 == [c0 EXCEPT
                 !.user_context    = Get(d, "user_context", EmptyDict),
                 !.project_name    = Get(d, "project_name", None),
                 !.vercel_info     = Get(d, "vercel_info", None),
                 !.frontend_url    = Get(d, "frontend_url", None),
                 !.error           = Get(d, "error", None),
                 !.completed_steps = ListToSet(Get(d, "completed_steps", <<>>))]
        name == Get(d, "repo_full_name", None)
    IN  IF name = None THEN c1
        \* org_name, repo_name = ...split("/") raises unless there are two parts
        ELSE IF Len(name[1]) # 2 \/ ~reconnect THEN c1
        ELSE [c1 EXCEPT !.repo = Some(RepoHandle(name[1][1], name[1][2]))]

\* ------------------------------------------------------------- variables
VARIABLES
    state,      \* ProjectSetupService.state
    context,    \* ProjectSetupService.context
    log,        \* the job's append-only log in the Checkpoint Store
    statuses,   \* the job-status writes made to the Checkpoint Store, in order
    saved,      \* the (context, state) checkpoint held by the Checkpoint Store
    ran,        \* the stage bodies started so far, in order
    session,    \* the CodeService object and what its collaborators saw
    call        \* what the last call did

vars == <<state, context, log, statuses, saved, ran, session, call>>

\* ------------------------------------------------------ Checkpoint Store
DbError == Exc("DatabaseError", "db unavailable")

\* The next store call of this advance() is one of those that fail.
DbCallFails(m) == (m.n + 1) \in m.inp.fail

\* Database.add_log(job_id, channel, message)
add_log(m, channel, message) ==
    IF m.exc # NoExc THEN m
    ELSE IF DbCallFails(m) THEN [m EXCEPT !.n = @ + 1, !.exc = DbError]
    ELSE [m EXCEPT !.n = @ + 1,
                   !.log = Append(@, [channel |-> channel, message |-> message])]

\* Database.update_job_status(job_id, status, error=None)
update_job_status(m, status, error) ==
    IF m.exc # NoExc THEN m
    ELSE IF DbCallFails(m) THEN [m EXCEPT !.n = @ + 1, !.exc = DbError]
    ELSE [m EXCEPT !.n = @ + 1,
                   !.statuses = Append(@, [status |-> status, error |-> error])]

\* ------------------------------------------------- ProjectSetupService
\* The table with FAILED allowed from every state.
transitions_failed_everywhere ==
    [s \in SetupState |->
        CASE s = INIT            -> {VALIDATING, FAILED}
          [] s = VALIDATING      -> {GITHUB_SETUP, FAILED}
          [] s = GITHUB_SETUP    -> {VERCEL_SETUP, FAILED}
          [] s = VERCEL_SETUP    -> {CODE_UPDATE, FAILED}
          [] s = CODE_UPDATE     -> {METADATA_UPDATE, FAILED}
          [] s = METADATA_UPDATE -> {DOMAIN_SETUP, FAILED}
          [] s = DOMAIN_SETUP    -> {NOTIFICATION, FAILED}
          [] s = NOTIFICATION    -> {COMPLETE, FAILED}
          [] s = COMPLETE        -> {FAILED}
          [] s = FAILED          -> {FAILED}]

\* self.transitions
transitions ==
    [s \in SetupState |->
        CASE s = INIT            -> {VALIDATING, FAILED}
          [] s = VALIDATING      -> {GITHUB_SETUP, FAILED}
          [] s = GITHUB_SETUP    -> {VERCEL_SETUP, FAILED}
          [] s = VERCEL_SETUP    -> {CODE_UPDATE, FAILED}
          [] s = CODE_UPDATE     -> {METADATA_UPDATE, FAILED}
          [] s = METADATA_UPDATE -> {DOMAIN_SETUP, FAILED}
          [] s = DOMAIN_SETUP    -> {NOTIFICATION, FAILED}
          [] s = NOTIFICATION    -> {COMPLETE, FAILED}
          [] s = COMPLETE        -> {}
          [] s = FAILED          -> {}]

\* f"Project setup state: {self.state.value}"
StateMessage(s) == [text |-> "Project setup state", state |-> s, detail |-> ""]
\* f"Error in {self.state.value}: {str(error)}"
ErrorMessage(s, e) == [text |-> "Error in", state |-> s, detail |-> e.msg]
\* f"Warning: Could not send notification: {str(e)}"
NotifyMessage(e) ==
    [text |-> "Warning: Could not send notification", state |-> "", detail |-> e.msg]

\* _log_state_transition
_log_state_transition(m) == add_log(m, "state", StateMessage(m.state))

\* _update_job_status with the condition inverted.
_update_job_status_inverted(m) ==
    update_job_status(m, IF m.state # COMPLETE THEN "completed" ELSE "pending", None)

\* _update_job_status
_update_job_status(m) ==
    update_job_status(m, IF m.state = COMPLETE THEN "completed" ELSE "pending", None)

\* raise ValueError(f"Invalid state transition from {self.state} to {new_state}")
InvalidTransition == Exc("ValueError", "Invalid state transition")

\* _transition_to performing the transition before validating it.
_transition_to_then_validate(m, new_state) ==
    IF m.exc # NoExc THEN m
    ELSE LET done == _update_job_status(
                        _log_state_transition(
                           [m EXCEPT !.state = new_state,
                                     !.trace = Append(@, new_state)]))
         IN  IF done.exc = NoExc /\ new_state \notin transitions[m.state]
             THEN [done EXCEPT !.exc = InvalidTransition,
                        !.refused = Append(@, [from |-> m.state, target |-> new_state,
                                               n |-> m.n, ran |-> Len(m.ran),
                                               trace |-> Len(m.trace)])]
             ELSE done

\* _transition_to
_transition_to(m, new_state) ==
    IF m.exc # NoExc THEN m
    ELSE IF new_state \notin transitions[m.state]
         THEN [m EXCEPT !.exc = InvalidTransition,
                        !.refused = Append(@, [from |-> m.state, target |-> new_state,
                                               n |-> m.n, ran |-> Len(m.ran),
                                               trace |-> Len(m.trace)])]
    ELSE _update_job_status(
            _log_state_transition(
               [m EXCEPT !.state = new_state, !.trace = Append(@, new_state)]))

\* ---- the stage bodies
\* The statements of a stage body are entered: its name is recorded.
Enter(m, name) ==
    IF m.exc # NoExc THEN m
    ELSE [m EXCEPT !.ran = Append(@, name), !.inBody = TRUE]

\* The k-th call of the stage body to an external collaborator (or to the
\* process environment): it raises when this call's input says so.
Ext(m, k) ==
    IF m.exc # NoExc THEN m
    ELSE IF m.inp.at = k THEN [m EXCEPT !.exc = Exc("Exception", m.inp.msg)]
    ELSE m

\* self.context.<field> = v
SetField(m, field, v) ==
    IF m.exc # NoExc THEN m ELSE [m EXCEPT !.context[field] = v]

\* _validate_input
RequiredFields == {"prompt", "description", "userContext"}
_validate_input(m) ==
    LET b == Enter(m, "_validate_input")
        missing_fields ==
            {f \in RequiredFields : f \notin DOMAIN b.context.data}
    IN  IF b.exc # NoExc THEN b
        ELSE IF missing_fields # {}
             THEN [b EXCEPT !.exc = Exc("ValueError", "Missing required fields")]
        ELSE IF Get(b.context.user_context, "fid", 0) = 0
             THEN [b EXCEPT !.exc = Exc("ValueError", "Missing fid in userContext")]
        ELSE b

\* _generate_project_name (a stub in the source)
_generate_project_name == "frame"
\* org.create_repo(...): the repository handle

\* _setup_github
_setup_github(m) ==
    LET b0 == Ext(Enter(m, "_setup_github"), 1)
        b1 == Ext(SetField(b0, "project_name", Some(_generate_project_name)), 2)
        b2 == SetField(b1, "repo", Some(RepoHandle(ORG_NAME, _generate_project_name)))
    IN  Ext(b2, 3)

\* An attribute of self.context.<field> is read: AttributeError when it is None.
Deref(m, field) ==
    IF m.exc # NoExc THEN m
    ELSE IF m.context[field] = None
         THEN [m EXCEPT !.exc = Exc("AttributeError",
                                    "'NoneType' object has no attribute")]
    ELSE m

\* str(x) of an Optional[str] inside an f-string
Str(x) == IF x = None THEN "None" ELSE x[1]

\* _setup_vercel
_setup_vercel(m) ==
    LET b0 == Ext(Enter(m, "_setup_vercel"), 1)
        b1 == SetField(b0, "vercel_info", Some([id |-> "prj"]))
        b2 == SetField(b1, "frontend_url",
                  Some("https://" \o Str(b1.context.project_name) \o ".vercel.app"))
    IN  Ext(Deref(b2, "repo"), 2)

\* _update_code: the setup prompt, then app.functions.update_code.remote(...)
_update_code(m) == Ext(Deref(Ext(Enter(m, "_update_code"), 1), "repo"), 2)

\* _update_metadata
_update_metadata(m) == Ext(Deref(Ext(Enter(m, "_update_metadata"), 1), "repo"), 2)

\* _setup_domain
_setup_domain(m) ==
    Ext(Deref(Ext(Deref(Enter(m, "_setup_domain"), "frontend_url"), 1), "repo"), 2)

\* _send_notification with no try around send_notification(...).
_send_notification_unguarded(m) ==
    LET b == Enter(m, "_send_notification")
    IN  IF b.exc # NoExc THEN b
        ELSE IF "fid" \notin DOMAIN b.context.user_context THEN b
        ELSE IF b.inp.at = 1
             THEN [b EXCEPT !.notify = "failed", !.exc = Exc("Exception", b.inp.msg)]
        ELSE [b EXCEPT !.notify = "sent"]

\* _send_notification; notify records what send_notification(...) did
_send_notification(m) ==
    LET b == Enter(m, "_send_notification")
    IN  IF b.exc # NoExc THEN b
        ELSE IF "fid" \notin DOMAIN b.context.user_context THEN b
        ELSE IF b.inp.at = 1
             THEN add_log([b EXCEPT !.notify = "failed"], "notification",
                          NotifyMessage(Exc("Exception", b.inp.msg)))
        ELSE [b EXCEPT !.notify = "sent"]

\* _finalize_setup
_finalize_setup(m) ==
    update_job_status(Enter(m, "_finalize_setup"), "completed", None)

\* _handle_error
_handle_error(m, error) ==
    LET error_msg == ErrorMessage(m.state, error)
    IN  update_job_status(add_log(m, "backend", error_msg), "failed", Some(error_msg))

\* advance: the try block
AdvanceTry(m) ==
    LET m1 == _log_state_transition(m)
        s  == m.state
    IN  CASE s = INIT            -> _validate_input(_transition_to(m1, VALIDATING))
          [] s = VALIDATING      -> _setup_github(_transition_to(m1, GITHUB_SETUP))
          [] s = GITHUB_SETUP    -> _setup_vercel(_transition_to(m1, VERCEL_SETUP))
          [] s = VERCEL_SETUP    -> _update_code(_transition_to(m1, CODE_UPDATE))
          [] s = CODE_UPDATE     -> _update_metadata(_transition_to(m1, METADATA_UPDATE))
          [] s = METADATA_UPDATE -> _setup_domain(_transition_to(m1, DOMAIN_SETUP))
          [] s = DOMAIN_SETUP    -> _send_notification(_transition_to(m1, NOTIFICATION))
          [] s = NOTIFICATION    -> _finalize_setup(_transition_to(m1, COMPLETE))
          [] OTHER               -> m1

\* The except branch reporting the error before the transition into FAILED.
AdvanceExcept_report_first(m) ==
    LET e  == m.exc
        m1 == [m EXCEPT !.exc = NoExc, !.caught = e, !.bodyRaised = m.inBody,
                        !.context.error = Some(e.msg)]
    IN  _transition_to(_handle_error(m1, e), FAILED)

\* advance: the except branch, entered with the exception m.exc
AdvanceExcept(m) ==
    LET e  == m.exc
        m1 == [m EXCEPT !.exc = NoExc, !.caught = e, !.bodyRaised = m.inBody,
                        !.context.error = Some(e.msg)]
    IN  _handle_error(_transition_to(m1, FAILED), e)

\* advance
advance(m) ==
    LET t == AdvanceTry(m)
    IN  IF t.exc = NoExc THEN t ELSE AdvanceExcept(t)

\* ------------------------------------------------------------ the driver
\* The inputs of one advance() call: the store calls that fail, and the
\* collaborator call of the stage body that raises (0: none) with its message.
\* The Checkpoint Store calls advance() can make when called in state s: the
\* state log, the two of _transition_to, those of the stage body, and in the
\* except branch the two of _transition_to and the two of _handle_error. In
\* COMPLETE and FAILED only the state log is made: the except branch's
\* transition is refused there.
DbCallsIn(s) ==
    CASE s \in {COMPLETE, FAILED}         -> 1
      [] s \in {DOMAIN_SETUP, NOTIFICATION} -> 8
      [] OTHER                             -> 7
\* The calls to external collaborators in the stage body that advance() runs
\* when called in state s.
BodyPoints(s) ==
    CASE s = VALIDATING -> 3
      [] s \in {GITHUB_SETUP, VERCEL_SETUP, CODE_UPDATE} -> 2
      [] s = METADATA_UPDATE -> 2
      [] s = DOMAIN_SETUP -> 1
      [] OTHER -> 0
DbFailSets(s) == {F \in SUBSET (1..DbCallsIn(s)) : Cardinality(F) <= MaxDbFailures}
BodyOutcomes(s) == {[at |-> 0, msg |-> ""]} \cup [at : 1..BodyPoints(s), msg : Msgs]

Machine(inp) ==
    [ state |-> state, context |-> context, log |-> log, statuses |-> statuses,
      ran |-> ran, inp |-> inp, n |-> 0, exc |-> NoExc, caught |-> NoExc,
      inBody |-> FALSE, bodyRaised |-> FALSE, trace |-> <<>>, refused |-> <<>>,
      notify |-> "none" ]

\* What a call did: the state it was made in, its argument, the exception it
\* raised to its caller (NoExc: it returned), the exception its handler caught,
\* whether that one came out of the stage body, the states it assigned, the
\* transition requests it refused, the store calls it made, what became of the
\* notification it dispatched, and where the log,
\* the status writes and the stage bodies stood before it.
CallRecord(op, arg, m) ==
    [ n |-> call.n + 1, op |-> op, arg |-> arg, from |-> state, raised |-> m.exc,
      caught |-> m.caught, bodyRaised |-> m.bodyRaised, inBody |-> m.inBody,
      trace |-> m.trace, refused |-> m.refused, dbcalls |-> m.n,
      notify |-> m.notify,
      log0 |-> Len(log), statuses0 |-> Len(statuses), ran0 |-> Len(ran) ]

Commit(op, arg, m) ==
    /\ state' = m.state
    /\ context' = m.context
    /\ log' = m.log
    /\ statuses' = m.statuses
    /\ ran' = m.ran
    /\ call' = CallRecord(op, arg, m)
    /\ UNCHANGED <<saved, session>>

\* _load_saved_state / _load_or_create_context: the checkpoint, if any
_load_saved_state(store) == IF store = None THEN None ELSE Some(store[1].state)

\* No CodeService has been constructed.
NoSession ==
    [ phase |-> "none", manual |-> FALSE, sandbox |-> "none", repo_dir |-> None,
      db |-> FALSE, is_setup |-> FALSE, workdir |-> FALSE, created |-> 0,
      terminations |-> 0, terminated |-> FALSE, install |-> "none",
      ai |-> <<>>, built |-> <<>>, wc |-> None, pushes |-> 0, result |-> None ]

NoCall ==
    [ n |-> 0, op |-> "__init__", arg |-> None, from |-> INIT, raised |-> NoExc,
      caught |-> NoExc, bodyRaised |-> FALSE, inBody |-> FALSE,
      trace |-> <<>>, refused |-> <<>>, dbcalls |-> 0, notify |-> "none",
      log0 |-> 0, statuses0 |-> 0, ran0 |-> 0 ]

Init ==
    /\ saved = None
    /\ \E data \in DataSet : context = NewContext(data, "project", "job")
    /\ state = (IF _load_saved_state(saved) = None THEN INIT
                ELSE _load_saved_state(saved)[1])
    /\ log = <<>>
    /\ statuses = <<>>
    /\ ran = <<>>
    /\ session = NoSession
    /\ call = NoCall

Advance ==
    /\ call.n < MaxCalls
    /\ \E F \in DbFailSets(state), o \in BodyOutcomes(state) :
          Commit("advance", None, advance(Machine([fail |-> F, at |-> o.at, msg |-> o.msg])))

Next == Advance

Spec == Init /\ [][Next]_vars

\* ------------------------------------------- transition requests, directly
\* A caller requests a transition to any target, once, between two advance()
\* calls: _transition_to(target).
TransitionTo ==
    /\ call.n < MaxCalls
    /\ call.op # "_transition_to"
    /\ call.raised = NoExc
    /\ \E target \in SetupState, F \in {G \in SUBSET (1..2) : Cardinality(G) <= MaxDbFailures} :
          Commit("_transition_to", Some(target),
                 _transition_to(Machine([fail |-> F, at |-> 0, msg |-> ""]), target))

\* advance(), as long as no transition was requested directly.
AdvanceBefore == call.op # "_transition_to" /\ Advance

NextTransition == AdvanceBefore \/ TransitionTo

SpecTransition == Init /\ [][NextTransition]_vars

\* --------------------------------------- the context round trip, directly
\* The contexts a workflow can hold.
ContextSet ==
    { [ NewContext(data, "project", "job") EXCEPT
          !.user_context = uc, !.project_name = pn, !.repo = rp, !.vercel_info = vi,
          !.frontend_url = fu, !.error = er, !.completed_steps = cs ] :
      data \in {FullData, [prompt |-> "p"], EmptyDict},
      uc \in {EmptyDict, [fid |-> 7]},
      pn \in {None, Some("frame")},
      rp \in {None, Some(RepoHandle(ORG_NAME, "frame")), Some([full_name |-> <<"frame">>])},
      vi \in {None, Some([id |-> "prj"])},
      fu \in {None, Some("https://frame.vercel.app")},
      er \in {None, Some(""), Some("boom")},
      cs \in SUBSET {VALIDATING, GITHUB_SETUP} }

InitContext ==
    /\ saved = None
    /\ context \in ContextSet
    /\ state = INIT
    /\ log = <<>>
    /\ statuses = <<>>
    /\ ran = <<>>
    /\ session = NoSession
    /\ call = NoCall

\* context = SetupContext.from_dict(context.to_dict(), project_id, job_id)
RoundTrip ==
    /\ call.n < MaxRoundTrips
    /\ \E reconnect \in BOOLEAN :
          /\ context' = from_dict(to_dict(context), context.project_id,
                                  context.job_id, reconnect)
          /\ call' = [NoCall EXCEPT !.n = call.n + 1, !.op = "from_dict",
                                    !.arg = Some(context)]
    /\ UNCHANGED <<state, log, statuses, saved, ran, session>>

NextContext == RoundTrip

SpecContext == InitContext /\ [][NextContext]_vars

\* ---------------------------------------------------------- CodeService
\* The job a CodeService writes to is the one its caller gives it (job_id);
\* under SpecCode the variables log and statuses are that job's.

\* A collaborator call of CodeService named `name`: it raises an exception of
\* the given kind when this call's input says so.
Fault(k, name, kind) ==
    IF k.exc # NoExc THEN k
    ELSE IF k.inp.fault = name
         THEN [k EXCEPT !.exc = Exc(kind, "boom"), !.fired = name]
    ELSE k

\* Python truthiness of has_errors: the bool of the returned tuple, or the
\* first key of the returned dict.
Truthy(v) == v # "False"

\* f"Aider run failed: {str(e)}", f"Build failed: {str(e)}", and the fixed text
CodeMessage(text, e) == [text |-> text, state |-> "", detail |-> e.msg]

\* terminate_sandbox without its try: the exception of terminate() gets out.
terminate_sandbox_unguarded(k) ==
    IF k.exc # NoExc THEN k
    ELSE IF k.s.sandbox = "none" THEN k
    ELSE IF k.inp.term = "raise"
         THEN [k EXCEPT !.s.terminations = @ + 1,
                        !.exc = Exc("Exception", "terminate failed")]
    ELSE [k EXCEPT !.s.terminations = @ + 1, !.s.terminated = TRUE,
                   !.s.sandbox = "none"]

\* CodeService.terminate_sandbox
terminate_sandbox(k) ==
    IF k.exc # NoExc THEN k
    ELSE IF k.s.sandbox = "none" THEN k
    ELSE IF k.inp.term = "raise"
         \* self.sandbox.terminate() raises: caught and printed
         THEN [k EXCEPT !.s.terminations = @ + 1]
    ELSE [k EXCEPT !.s.terminations = @ + 1, !.s.terminated = TRUE,
                   !.s.sandbox = "none"]

\* CodeService._create_sandbox
_create_sandbox(k) ==
    LET k1 == Fault(k, "sandbox_create", "Exception")
        k2 == IF k1.exc # NoExc THEN k1
              ELSE [k1 EXCEPT !.s.sandbox = "live", !.s.created = @ + 1]
    IN  Fault(k2, "set_tags", "Exception")

\* CodeService._run_install_in_sandbox: the exit status of the install command
\* is not looked at
_run_install_in_sandbox(k) ==
    LET k1 == Fault(k, "install", "Exception")
    IN  IF k1.exc # NoExc THEN k1 ELSE [k1 EXCEPT !.s.install = k1.inp.install]

\* CodeService._setup
_setup(k) ==
    IF k.s.is_setup THEN k
    ELSE LET k1 == Fault(k, "database", "Exception")
             k2 == IF k1.exc # NoExc THEN k1
                   ELSE [k1 EXCEPT !.s.db = TRUE, !.s.repo_dir = Some("tmpdir"),
                                   !.s.workdir = TRUE]
             k3 == Fault(Fault(Fault(k2, "get_project", "Exception"),
                               "clone", "GitCommandError"),
                         "configure_git", "Exception")
             k4 == _run_install_in_sandbox(_create_sandbox(k3))
         IN  IF k4.exc # NoExc THEN k4 ELSE [k4 EXCEPT !.s.is_setup = TRUE]

\* CodeService.__init__
CodeService(k, manual_sandbox_termination) ==
    _setup([k EXCEPT !.s = [NoSession EXCEPT !.manual = manual_sandbox_termination]])

\* _run_build_in_sandbox: the except branch, which returns a dict; the caller
\* unpacks its two keys into has_errors, logs
BuildExcept(k, e) ==
    LET error_msg == CodeMessage("Build failed", e)
        k1 == update_job_status(add_log([k EXCEPT !.exc = NoExc], "build", error_msg),
                                "failed", Some(error_msg))
    IN  IF k1.exc # NoExc THEN k1
        ELSE [k1 EXCEPT !.has_errors = "status", !.logs = "error"]

\* self.repo_dir.cleanup(): repo_dir is the str tempfile.mkdtemp() returned,
\* which has no cleanup attribute
repo_dir_cleanup(k) ==
    IF k.exc # NoExc THEN k
    ELSE [k EXCEPT !.exc = Exc("AttributeError", "'str' object has no attribute 'cleanup'")]

\* CodeService._run_build_in_sandbox; outcome is what the build command does:
\* "ok", "fail" (its output is classified as failed) or "exc" (exec raises)
_run_build_in_sandbox(k, terminate_after_build, outcome) ==
    IF k.exc # NoExc THEN k
    ELSE LET b0 == IF k.s.sandbox = "none"
                   THEN [k EXCEPT !.exc = Exc("AttributeError",
                                              "'NoneType' object has no attribute 'exec'")]
                   ELSE [k EXCEPT !.s.built = Append(@, outcome)]
             b1 == IF b0.exc = NoExc /\ outcome = "exc"
                   THEN [b0 EXCEPT !.exc = Exc("Exception", "boom")]
                   ELSE b0
             b2 == IF terminate_after_build /\ ~b1.s.manual
                   THEN repo_dir_cleanup(terminate_sandbox(b1))
                   ELSE b1
         IN  IF b2.exc # NoExc THEN BuildExcept(b2, b2.exc)
             ELSE [b2 EXCEPT !.has_errors = IF outcome = "fail" THEN "True" ELSE "False",
                             !.logs = "logs_str"]

\* CodeService._sync_git_changes
_sync_git_changes(k) ==
    IF k.exc # NoExc THEN k
    ELSE LET g1 == Fault(k, "rev_list", "GitCommandError")
             g2 == Fault(g1, "rev_list_output", "ValueError")
             g3 == IF g2.inp.ahead > 0
                   THEN Fault(Fault(g2, "push", "GitCommandError"),
                              "push_other", "Exception")
                   ELSE g2
             g4 == IF g3.exc = NoExc /\ g3.inp.ahead > 0
                   THEN [g3 EXCEPT !.s.pushes = @ + 1]
                   ELSE g3
         IN  \* except git.GitCommandError: printed
             IF g4.exc.kind = "GitCommandError" THEN [g4 EXCEPT !.exc = NoExc]
             ELSE g4

\* coder.run(...): one invocation of the AI Code Modifier
CoderRun(k, name) ==
    IF k.exc # NoExc THEN k
    ELSE Fault([k EXCEPT !.s.ai = Append(@, name)], name, "Exception")

\* The fix attempt, with a second failed build treated as a hard failure.
FixAttempt_second_failure_raises(k) ==
    LET k1 == _run_build_in_sandbox(CoderRun(k, "ai2"), TRUE, k.inp.b2)
    IN  IF k1.exc = NoExc /\ Truthy(k1.has_errors)
        THEN [k1 EXCEPT !.exc = Exc("Exception", "build errors persist")]
        ELSE k1

\* run: lines 72-89, the fix attempt made when the first build has errors
FixAttempt(k) ==
    LET k1 == _run_build_in_sandbox(CoderRun(k, "ai2"), TRUE, k.inp.b2)
    IN  IF k1.exc = NoExc /\ Truthy(k1.has_errors)
        THEN add_log(k1, "backend",
                     CodeMessage("Build errors could not be automatically fixed", NoExc))
        ELSE k1

\* The fix attempt repeated while the build has errors, twice at most.
RunBuildErrors_retry_twice(k) ==
    IF k.exc # NoExc \/ ~Truthy(k.has_errors) THEN k
    ELSE LET k1 == FixAttempt(k)
         IN  IF k1.exc # NoExc \/ ~Truthy(k1.has_errors) THEN k1 ELSE FixAttempt(k1)

\* run: lines 71-89, if has_errors
RunBuildErrors(k) ==
    IF k.exc # NoExc \/ ~Truthy(k.has_errors) THEN k ELSE FixAttempt(k)

\* The working copy as the AI Code Modifier and the builds left it, when run
\* comes to line 91: whether it has uncommitted changes, and how many commits
\* main is ahead of origin/main.
WorkingCopy(k) ==
    IF k.exc # NoExc THEN k
    ELSE [k EXCEPT !.s.wc = Some([dirty |-> k.inp.dirty, ahead |-> k.inp.ahead])]

\* run: the try block
RunTry(k) ==
    LET k1 == update_job_status(Fault(k, "coder_create", "Exception"), "running", None)
        k2 == _run_build_in_sandbox(CoderRun(k1, "ai1"), FALSE, k.inp.b1)
        k3 == RunBuildErrors(k2)
        k4 == Fault(Fault(WorkingCopy(k3), "git_repo", "Exception"),
                    "is_dirty", "Exception")
        k5 == IF k4.exc = NoExc /\ k4.inp.dirty THEN _sync_git_changes(k4) ELSE k4
        k6 == update_job_status(k5, "completed", None)
    IN  IF k6.exc # NoExc THEN k6
        ELSE [k6 EXCEPT !.s.result = Some([status |-> "success"])]

\* run: the except branch, which re-raises the exception it caught
RunExcept(k) ==
    LET e  == k.exc
        error_msg == CodeMessage("Aider run failed", e)
        k1 == [k EXCEPT !.exc = NoExc, !.caught = e]
        k2 == update_job_status(add_log(k1, "backend", error_msg),
                                "failed", Some(error_msg))
        k3 == terminate_sandbox(k2)
        \* what line 103 did: nothing (no sandbox), terminated it, or its
        \* terminate() raised
        k4 == [k3 EXCEPT !.cleanup = IF k2.exc # NoExc THEN "none"
                                     ELSE IF k2.s.sandbox = "none" THEN "noop"
                                     ELSE IF k3.s.sandbox = "none" THEN "ok"
                                     ELSE "raised"]
    IN  IF k4.exc # NoExc THEN k4 ELSE [k4 EXCEPT !.exc = e]

\* CodeService.run
run(k) ==
    LET r == RunTry(k)
    IN  IF r.exc = NoExc THEN r ELSE RunExcept(r)

\* ---- the driver of a code session
\* The Checkpoint Store calls one run() can make: "running", two per build that
\* raises, the "could not be fixed" log, "completed", two in the except branch.
DbCallsInRun == 9

SetupFaults ==
    {"database", "get_project", "clone", "configure_git", "sandbox_create",
     "set_tags", "install"}
RunFaults ==
    {"coder_create", "ai1", "ai2", "git_repo", "is_dirty", "rev_list",
     "rev_list_output", "push", "push_other"}
BuildOutcomes == {"ok", "fail", "exc"}

CodeMachine(inp) ==
    [ s |-> session, log |-> log, statuses |-> statuses, n |-> 0, inp |-> inp,
      exc |-> NoExc, caught |-> NoExc, has_errors |-> "False", logs |-> "",
      fired |-> "none", cleanup |-> "none" ]

\* What a caller of CodeService can tell of the call that ended: the
\* collaborator call that raised, whether a Checkpoint Store call failed, and
\* what the except branch of run did with the sandbox.
Observed(k) ==
    [ fired |-> k.fired, dbfailed |-> (k.inp.fail \cap (1..k.n)) # {},
      cleanup |-> k.cleanup ]

CodeCommit(op, phase, k) ==
    /\ session' = [k.s EXCEPT !.phase = phase]
    /\ log' = k.log
    /\ statuses' = k.statuses
    /\ call' = [NoCall EXCEPT !.n = call.n + 1, !.op = op, !.raised = k.exc,
                              !.arg = Some(Observed(k)),
                              !.caught = k.caught, !.dbcalls = k.n,
                              !.log0 = Len(log), !.statuses0 = Len(statuses)]
    /\ UNCHANGED <<state, context, saved, ran>>

InitCode ==
    /\ saved = None
    /\ context = NewContext(FullData, "project", "job")
    /\ state = INIT
    /\ log = <<>>
    /\ statuses = <<>>
    /\ ran = <<>>
    /\ session = NoSession
    /\ call = NoCall

\* code_service = CodeService(project_id, job_id, user_context, manual)
Construct ==
    /\ session.phase = "none"
    /\ \E manual \in BOOLEAN, fault \in SetupFaults \cup {"none"},
          install \in {"ok", "nonzero"} :
          LET k == CodeService(CodeMachine([fault |-> fault, install |-> install,
                                            fail |-> {}]), manual)
          IN  CodeCommit("__init__",
                         IF k.exc = NoExc THEN "constructed" ELSE "unconstructed", k)

\* code_service.run(prompt)
Run ==
    /\ session.phase = "constructed"
    /\ \E fault \in RunFaults \cup {"none"}, b1 \in BuildOutcomes, b2 \in BuildOutcomes,
          dirty \in BOOLEAN, ahead \in 0..1, term \in {"ok", "raise"},
          F \in {G \in SUBSET (1..DbCallsInRun) : Cardinality(G) <= MaxDbFailures} :
          CodeCommit("run", "ran",
                     run(CodeMachine([fault |-> fault, b1 |-> b1, b2 |-> b2,
                                      dirty |-> dirty, ahead |-> ahead, term |-> term,
                                      fail |-> F])))

\* code_service.terminate_sandbox(), by the caller that asked to keep the sandbox
TerminateSandbox ==
    /\ session.phase = "ran"
    /\ session.manual
    /\ \E term \in {"ok", "raise"} :
          CodeCommit("terminate_sandbox", "released",
                     terminate_sandbox(CodeMachine([term |-> term, fail |-> {}])))

NextCode == Construct \/ Run \/ TerminateSandbox

SpecCode == InitCode /\ [][NextCode]_vars

\* ====================================================================
\* The claims
\* ====================================================================
\* The transition table as the specification states it.
Chain ==
    <<INIT, VALIDATING, GITHUB_SETUP, VERCEL_SETUP, CODE_UPDATE, METADATA_UPDATE,
      DOMAIN_SETUP, NOTIFICATION, COMPLETE>>
Terminal == {COMPLETE, FAILED}
TableEdges ==
    {<<Chain[i], Chain[i + 1]>> : i \in 1..(Len(Chain) - 1)}
        \cup {<<s, FAILED>> : s \in SetupState \ Terminal}

\* The last job status written, the log entries and the status writes of the
\* last call.
LastStatus == statuses[Len(statuses)]
CallLog == SubSeq(log, call.log0 + 1, Len(log))
CallStatuses == SubSeq(statuses, call.statuses0 + 1, Len(statuses))
\* The last call was advance() and its stage body raised.
BodyRaised == call.op = "advance" /\ call.bodyRaised
\* The last call was advance(), it ran a stage body and nothing raised.
BodySucceeded ==
    call.op = "advance" /\ call.inBody /\ call.caught = NoExc /\ call.raised = NoExc

\* C1: after an advance() call made in a non-terminal state whose stage body
\* raised, the state is FAILED and context.error is a non-empty message.
C1_BodyFailureEndsFailed ==
    (BodyRaised /\ call.from \notin Terminal) =>
        (state = FAILED /\ context.error # None /\ context.error[1] # "")

\* C2: advance() never raises to its caller, whatever stage body or Checkpoint
\* Store call fails during the call.
C2_AdvanceNeverRaises == call.op = "advance" => call.raised = NoExc

\* C3: every assignment of the workflow state made by a call is an edge of the
\* transition table, and a call made in COMPLETE or FAILED changes neither the
\* state nor the stage bodies run.
C3_TransitionsFollowTable ==
    [][ LET path == <<state>> \o call'.trace
        IN  /\ state' = path[Len(path)]
            /\ \A i \in 1..(Len(path) - 1) : <<path[i], path[i + 1]>> \in TableEdges
            /\ state \in Terminal => (state' = state /\ ran' = ran) ]_vars
\* advance() was called in COMPLETE, reached through the whole chain.
C3_Witness ==
    /\ call.op = "advance" /\ call.from = COMPLETE /\ state = COMPLETE
    /\ Len(ran) = 8

\* C4: after an advance() call whose stage body succeeded the last job status
\* written is "completed" if the new state is COMPLETE and "pending" otherwise.
C4_StatusFollowsState ==
    BodySucceeded =>
        /\ state \in SetupState \ {INIT, FAILED}
        /\ statuses # <<>>
        /\ LastStatus.status = (IF state = COMPLETE THEN "completed" ELSE "pending")
\* the stage body of CODE_UPDATE, which dispatches code-update work, succeeded
C4_Witness == BodySucceeded /\ state = CODE_UPDATE

\* C5: when advance() returns FAILED because a stage body raised, the last job
\* status written is "failed", it follows the "pending" write of the transition
\* into FAILED, and it carries the error message.
C5_FailedStatusIsLast ==
    (BodyRaised /\ call.raised = NoExc /\ state = FAILED) =>
        LET w == CallStatuses
        IN  /\ Len(w) >= 2
            /\ w[Len(w)].status = "failed"
            /\ w[Len(w) - 1].status = "pending"
            /\ w[Len(w)].error # None
            /\ w[Len(w)].error[1].detail = call.caught.msg
            /\ context.error = Some(call.caught.msg)
C5_Witness ==
    BodyRaised /\ call.raised = NoExc /\ state = FAILED /\ call.from = VALIDATING

\* C6: when a stage body raises, the failure log entry and the persisted error
\* message name the stage whose body raised, not FAILED.
C6_ErrorNamesFailingStage ==
    (BodyRaised /\ call.raised = NoExc /\ state = FAILED) =>
        /\ CallLog # <<>>
        /\ CallLog[Len(CallLog)].channel = "backend"
        /\ CallLog[Len(CallLog)].message.state = call.trace[1]
        /\ LastStatus.error # None
        /\ LastStatus.error[1].state = call.trace[1]

\* C7: when advance() ends, the Checkpoint Store holds the resulting
\* (context, state) pair, so that a workflow constructed from it resumes there.
C7_CheckpointPersisted ==
    call.op = "advance" =>
        /\ saved # None
        /\ saved[1].context = to_dict(context)
        /\ saved[1].state = state

\* C8: a transition request whose target is not allowed from the current state
\* is refused before anything happens: the state is unchanged, and the request
\* makes no store call, assigns no state and runs no stage body.
C8_RefusedBeforeAnyEffect ==
    /\ \A i \in DOMAIN call.refused :
          LET r == call.refused[i]
          IN  /\ call.raised = InvalidTransition
              /\ state = r.from
              /\ call.dbcalls = r.n
              /\ Len(call.trace) = r.trace
              /\ Len(ran) = r.ran
    /\ (call.op = "_transition_to" /\ <<call.from, call.arg[1]>> \notin TableEdges) =>
          /\ call.refused # <<>>
          /\ state = call.from
          /\ Len(log) = call.log0
          /\ Len(statuses) = call.statuses0
          /\ Len(ran) = call.ran0
\* COMPLETE was requested in VALIDATING
C8_Witness ==
    /\ call.op = "_transition_to" /\ call.from = VALIDATING
    /\ call.arg = Some(COMPLETE) /\ call.raised = InvalidTransition

\* C9: from_dict(c.to_dict(), c.project_id, c.job_id) equals c in every field
\* but the repository handle.
RoundTripFields ==
    {"data", "project_id", "job_id", "user_context", "project_name", "vercel_info",
     "frontend_url", "error", "completed_steps"}
C10_AtMostTwoAttempts ==
    call.op = "run" => (Len(session.ai) <= 2 /\ Len(session.built) <= 2)
\* both builds raised, and the modifier was invoked twice
C10_Witness ==
    call.op = "run" /\ session.built = <<"exc", "exc">> /\ session.ai = <<"ai1", "ai2">>

\* ---- the code session
\* The last call was run(), and what its caller can tell of it.
RunCall == call.op = "run"
CallFacts == call.arg[1]
Success == Some([status |-> "success"])
WroteFailed == \E i \in DOMAIN CallStatuses : CallStatuses[i].status = "failed"
\* Nothing failed in the last run() but builds whose output was classified as
\* failed: no collaborator call raised, no Checkpoint Store call failed and no
\* build command raised.
OnlyBuildsFail ==
    /\ RunCall
    /\ CallFacts.fired = "none"
    /\ ~CallFacts.dbfailed
    /\ \A i \in DOMAIN session.built : session.built[i] # "exc"

\* C11: when both builds of one run() are classified as failed (and nothing
\* else fails), run() does not raise, returns a result with status "success",
\* and the last job status written when it returns is "completed".
C11_TwoFailedBuildsStillCompleted ==
    (OnlyBuildsFail /\ session.built = <<"fail", "fail">>) =>
        /\ call.raised = NoExc
        /\ session.result = Success
        /\ LastStatus.status = "completed"
\* both builds failed in a session that releases its sandbox itself: "failed"
\* was written on the way, and "completed" after it
C11_Witness ==
    /\ OnlyBuildsFail /\ session.built = <<"fail", "fail">>
    /\ ~session.manual /\ WroteFailed /\ LastStatus.status = "completed"

\* C12: when the clone, the sandbox creation or the install step raises while
\* the code session is acquired, the failure is logged to the job's log, the
\* last job status written is "failed", and the exception reaches the caller.
HardSetupFaults == {"clone", "sandbox_create", "install"}
\* The last call was the constructor of CodeService.
InitCall == call.op = "__init__" /\ call.n > 0
C12_SetupFailureReported ==
    (InitCall /\ CallFacts.fired \in HardSetupFaults) =>
        /\ call.raised # NoExc
        /\ CallLog # <<>>
        /\ statuses # <<>>
        /\ LastStatus.status = "failed"

\* C13: when the constructor or run() raises to its caller in a session whose
\* sandbox was created, sandbox.terminate() was called before that; in a
\* session without a sandbox nothing is terminated.
C13_TerminationAttemptedOnHardFailure ==
    ((InitCall \/ RunCall) /\ call.raised # NoExc) =>
        IF session.created > 0 THEN session.terminations > 0
        ELSE session.terminations = 0

\* C14: when a run() of a session without manual retention returns, the code
\* session is destroyed: terminate() was called on its sandbox and its working
\* copy is removed, whatever the builds did.
C14_SessionDestroyedAtEnd ==
    (RunCall /\ ~session.manual /\ call.raised = NoExc) =>
        /\ session.terminations > 0
        /\ ~session.workdir

\* C15: in a run() where nothing but builds fails, the log entry "Build errors
\* could not be automatically fixed" is written if and only if both builds were
\* classified as failed; and when the first build fails and the second succeeds
\* in a session without manual retention, the AI Code Modifier was invoked
\* twice, two builds ran, terminate() was called on the sandbox, the last job
\* status is "completed" and that entry is not written.
CouldNotFix ==
    \E i \in DOMAIN CallLog :
        CallLog[i].message.text = "Build errors could not be automatically fixed"
C15_FixLogIffBothBuildsFailed ==
    OnlyBuildsFail =>
        /\ CouldNotFix <=> (session.built = <<"fail", "fail">>)
        /\ (session.built = <<"fail", "ok">> /\ ~session.manual) =>
              /\ session.ai = <<"ai1", "ai2">>
              /\ session.terminations > 0
              /\ LastStatus.status = "completed"
              /\ ~CouldNotFix

\* C16: in a run() where nothing but builds classified as failed fails, no
\* write of the job status made during the call is "failed".
C16_BuildFailuresAreSoft == OnlyBuildsFail => ~WroteFailed

\* C17: when a run() in which nothing raised comes past its builds with a
\* working copy that has uncommitted changes or whose main is ahead of
\* origin/main, it pushes if the ahead-count is greater than zero; so a clean
\* working copy that is ahead is pushed.
C17_UnpushedCommitsArePushed ==
    (RunCall /\ call.raised = NoExc /\ CallFacts.fired = "none" /\ session.wc # None) =>
        LET wc == session.wc[1]
        IN  (wc.ahead > 0) => session.pushes = 1

\* C18: when a step of the synchronization after the builds fails (opening the
\* working copy, the dirty check, the rev-list call, parsing its output, the
\* push) and no Checkpoint Store call fails, run() does not raise: the last job
\* status written is "completed" and the result has status "success".
SyncFaults ==
    {"git_repo", "is_dirty", "rev_list", "rev_list_output", "push", "push_other"}
C18_SyncFailureNeverPropagates ==
    (RunCall /\ CallFacts.fired \in SyncFaults /\ ~CallFacts.dbfailed) =>
        /\ call.raised = NoExc
        /\ session.result = Success
        /\ LastStatus.status = "completed"

\* C19: terminate_sandbox() never raises to its caller; and when the except
\* branch of run() calls it and the sandbox's terminate() raises, the exception
\* run() raises is the one it caught, and the last job status written is
\* "failed" with the message of that exception.
C19_CleanupFailureDoesNotMask ==
    /\ call.op = "terminate_sandbox" => call.raised = NoExc
    /\ (RunCall /\ CallFacts.cleanup = "raised") =>
          /\ call.caught # NoExc
          /\ call.raised = call.caught
          /\ LastStatus.status = "failed"
          /\ LastStatus.error = Some(CodeMessage("Aider run failed", call.caught))
\* the first invocation of the AI Code Modifier raised, and so did the
\* terminate() of the cleanup: the sandbox is still live
C19_Witness ==
    /\ RunCall /\ CallFacts.cleanup = "raised" /\ CallFacts.fired = "ai1"
    /\ session.sandbox = "live" /\ session.terminations = 1
    /\ call.raised = Exc("Exception", "boom")

\* C20: when the install step of a session failed (its exec raised, or the
\* install command ended unsuccessfully), the AI Code Modifier is never
\* invoked and no build command is executed for that session, and the last job
\* status written is "failed".
InstallFailed ==
    \/ session.install = "nonzero"
    \/ InitCall /\ CallFacts.fired = "install"
C20_InstallFailureAborts ==
    InstallFailed =>
        /\ session.ai = <<>>
        /\ session.built = <<>>
        /\ statuses # <<>>
        /\ LastStatus.status = "failed"

\* ---- the workflow, again
\* The last call was advance(), its send_notification(...) raised, and no
\* Checkpoint Store call of it failed.
NotificationFailed ==
    /\ call.op = "advance" /\ call.notify = "failed"
    /\ call.caught # DbError /\ call.raised # DbError
\* C21: when send_notification raises in the advance() call that enters
\* NOTIFICATION (and no store call fails), the failure is logged, the call
\* returns NOTIFICATION, the last job status written is "pending" and
\* context.error is as unset as before; and the next advance() call, if nothing
\* fails in it, reaches COMPLETE.
C21_NotificationFailureIsHarmless ==
    [][ /\ NotificationFailed' =>
              /\ call'.raised = NoExc /\ call'.caught = NoExc
              /\ state = DOMAIN_SETUP /\ state' = NOTIFICATION
              /\ log'[Len(log')].channel = "notification"
              /\ statuses'[Len(statuses')].status = "pending"
              /\ context.error = None /\ context'.error = None
        /\ (NotificationFailed /\ call'.op = "advance"
              /\ call'.raised = NoExc /\ call'.caught = NoExc) =>
              /\ state' = COMPLETE
              /\ statuses'[Len(statuses')].status = "completed" ]_vars
\* a notification failure was logged on the way, and the workflow is COMPLETE
C21_Witness ==
    /\ state = COMPLETE /\ call.op = "advance" /\ call.from = NOTIFICATION
    /\ \E i \in DOMAIN log : log[i].channel = "notification"
    /\ context.error = None /\ LastStatus.status = "completed"

\* C22: a driver that calls advance() from INIT is in COMPLETE or FAILED after
\* at most 8 calls, whatever fails; and the workflow is COMPLETE only if the
\* eight stage bodies ran once each, in the order of the chain, and the body of
\* the call that reached COMPLETE did not raise.
StageBodies ==
    <<"_validate_input", "_setup_github", "_setup_vercel", "_update_code",
      "_update_metadata", "_setup_domain", "_send_notification", "_finalize_setup">>
C22_TerminatesWithinEightCalls ==
    /\ call.n >= Len(StageBodies) => state \in Terminal
    /\ state = COMPLETE =>
          /\ ran = StageBodies
          /\ (call.op = "advance" /\ call.from = NOTIFICATION) => ~call.bodyRaised

====
